---- MODULE Spec2Model ----
(***************************************************************************)
(* Model of the SMPL-X pose/animation core: the pose-vector codec          *)
(* (ui.py _update_joint and the per-track write of AnimationWorker.run),   *)
(* the interpolation functions and the frame sequencer                     *)
(* (animation_worker.py AnimationWorker.run / _render_frame).              *)
(*                                                                         *)
(* Numbers.  Python floats are modelled as exact fixed-point values        *)
(*     x  =  r/Q  +  (p/Q) * pi/180                                        *)
(* held as records [r, p] of integer ticks: r is the plain part (shape     *)
(* units, degrees) and p the part that carries the factor pi/180 (radians  *)
(* produced by `deg * np.pi / 180`).  Float rounding is not modelled.      *)
(***************************************************************************)
EXTENDS Integers, Sequences, FiniteSets, TLC

\* ticks per unit of the fixed-point numbers (divisible by 1..6, and 0.005
\* is a whole number of ticks)
Q == 12 * 100

\* ------------------------------------------------------------ bounds ----
MaxFrames == 4          \* largest frame count of a run
MaxWrites == 2          \* single joint writes applied in a row (SpecCodec)

\* ----------------------------------------------------------------- state -
VARIABLES
    frames,         \* AnimationWorker.frames
    interpolation,  \* AnimationWorker.interpolation
    anim_params,    \* AnimationWorker._anim_params (set_params)
    mode,           \* which part of the program runs: "run", "codec", "ui", ...
    pc,             \* position of run(): ready, compute, render, done, failed
    frame_params,   \* list built by the first loop of run()
    t_log,          \* the t computed for each entry of frame_params
    current_pose,   \* run()'s local current_pose
    render_idx,     \* frame_idx of the second loop of run()
    emitted,        \* signals emitted so far, in order
    rendered,       \* calls of _render_frame so far, in order
    files,          \* names of the frame files saved so far
    pose_params,    \* the control surface's global pose vector
    last,           \* the latest single joint write
    writes,         \* number of single joint writes so far
    shape_params,   \* the control surface's global shape vector
    body_model,     \* the loaded body model, "None" before a load succeeds
    canvas,         \* what the control surface's canvas shows
    generate_btn,   \* generate_btn.isEnabled()
    handled,        \* how many entries of emitted the UI thread has handled
    active,         \* workers started whose terminal signal is not handled
    app,            \* "up", or "aborted" after an exception left a slot
    shape_slider,   \* shape_slider.value()
    core_sliders,   \* value() of each slider of core_sliders, by joint id
    current_view,   \* ui.py current_view_elev, _azim and _dist
    view_sliders,   \* value() of elev_slider, azim_slider and dist_slider
    saved_views     \* ui.py saved_views, by view name

vars == <<frames, interpolation, anim_params, mode, pc, frame_params, t_log,
          current_pose, render_idx, emitted, rendered, files, pose_params,
          last, writes, shape_params, body_model, canvas, generate_btn,
          handled, active, app, shape_slider, core_sliders, current_view,
          view_sliders, saved_views>>

runVars == <<frames, interpolation, anim_params, pc, frame_params, t_log,
             render_idx, emitted, rendered, files>>

sliderVars == <<shape_slider, core_sliders>>
viewVars == <<current_view, view_sliders, saved_views>>

surfaceVars == <<shape_params, body_model, canvas, generate_btn, handled,
                 active, app, sliderVars, viewVars>>

\* ------------------------------------------------------- real numbers ---
Real(r, p) == [r |-> r, p |-> p]
Zero == Real(0, 0)
Num(k) == Real(k * Q, 0)                \* the number k
Half == Real(Q \div 2, 0)               \* the number 0.5
Milli5 == Real(Q \div 200, 0)           \* the number 0.005

Abs(n) == IF n < 0 THEN -n ELSE n

RAdd(x, y) == Real(x.r + y.r, x.p + y.p)
RSub(x, y) == Real(x.r - y.r, x.p - y.p)
\* x * np.pi / 180 for a plain number x
MulPiOver180(x) == Real(0, x.r)
\* x * t for a fraction t = [n, d]
MulT(x, t) == Real((x.r * t.n) \div t.d, (x.p * t.n) \div t.d)
\* abs(x) < 0.01, with pi taken as 355/113:
\*   |r/Q + p*355/(113*180*Q)| < 1/100   <=>   |r*20340 + p*355| * 5 < Q * 1017
AbsLt001(x) == Abs(x.r * 20340 + x.p * 355) * 5 < Q * 1017

\* ------------------------------------------------------ joint registry ---
PoseLen == 156
Slots == 0 .. (PoseLen - 1)
GLOBAL_ROTATION == -1000                \* stands for the string 'global'
RegistryIds == 0 .. 21                  \* values of SMPLX_JOINTS
Joints == RegistryIds \cup {GLOBAL_ROTATION}

\* a table whose entry for the left hip is the one of AnimationWorker.run's
\* own literal (1: 1)
JOINT_AXIS_MAP_hipY(idx) ==
    IF idx = GLOBAL_ROTATION THEN 1
    ELSE IF idx \in {2, 4, 5, 7, 8, 10, 11} THEN 2
    ELSE IF idx \in {1, 3, 6, 9, 12, 15} THEN 1
    ELSE 0

\* config.py JOINT_AXIS_MAP, read with .get(idx, 0)
JOINT_AXIS_MAP(idx) ==
    IF idx = GLOBAL_ROTATION THEN 1
    ELSE IF idx \in {1, 2, 4, 5, 7, 8, 10, 11} THEN 2
    ELSE IF idx \in {3, 6, 9, 12, 15} THEN 1
    ELSE IF idx \in {13, 14, 16, 17, 18, 19, 20, 21} THEN 0
    ELSE 0

\* the dict literal inside AnimationWorker.run, read with .get(idx, 0)
axis_map(idx) ==
    IF idx \in {0} THEN 0
    ELSE IF idx \in {1} THEN 1
    ELSE IF idx \in {2, 4, 5, 7, 8, 10, 11} THEN 2
    ELSE IF idx \in {3, 6, 9, 12, 15} THEN 1
    ELSE IF idx \in {13, 14, 16, 17, 18, 19, 20, 21} THEN 0
    ELSE 0

ZeroPose == [s \in Slots |-> Zero]

\* torch.zeros(1, 10): the shape vector
ShapeLen == 10
ShapeSlots == 0 .. (ShapeLen - 1)
ZeroShape == [s \in ShapeSlots |-> Zero]
\* a tensor filled with the value, torch.full((1, 10), shape_0)
shape_tensor_fill(shape_0) == [s \in ShapeSlots |-> shape_0]

\* _render_frame: shape_tensor = torch.zeros(1, 10); shape_tensor[0, 0] = shape_0
shape_tensor(shape_0) == [s \in ShapeSlots |-> IF s = 0 THEN shape_0 ELSE Zero]

\* ----------------------------------------------------- pose vector codec -
\* tensor[0, i] = v : an index outside the tensor raises, which the guards
\* of the callers exclude; inside the tensor the slot is replaced
SetSlot(pose, i, v) == [s \in Slots |-> IF s = i THEN v ELSE pose[s]]

\* a write that sets the dominant slot and leaves the other two alone
write_track_partial(pose, idx, current_rad) ==
    IF idx = GLOBAL_ROTATION
    THEN SetSlot(pose, 1, current_rad)
    ELSE LET pose_start_idx == 3 + idx * 3
             axis == axis_map(idx)
         IN  IF 0 <= pose_start_idx + axis /\ pose_start_idx + axis < PoseLen
             THEN SetSlot(pose, pose_start_idx + axis, current_rad)
             ELSE pose

\* a write that adds the angle to what the dominant slot holds
write_track_additive(pose, idx, current_rad) ==
    IF idx = GLOBAL_ROTATION
    THEN SetSlot(pose, 1, RAdd(pose[1], current_rad))
    ELSE LET pose_start_idx == 3 + idx * 3
             axis == axis_map(idx)
         IN  IF 0 <= pose_start_idx + axis /\ pose_start_idx + axis < PoseLen
             THEN SetSlot(pose, pose_start_idx + axis,
                          RAdd(pose[pose_start_idx + axis], current_rad))
             ELSE pose

\* a write that clears the whole vector before it sets the dominant slot
write_track_clearing(pose, idx, current_rad) ==
    IF idx = GLOBAL_ROTATION
    THEN SetSlot(ZeroPose, 1, current_rad)
    ELSE LET pose_start_idx == 3 + idx * 3
             axis == axis_map(idx)
         IN  IF 0 <= pose_start_idx + axis /\ pose_start_idx + axis < PoseLen
             THEN SetSlot(ZeroPose, pose_start_idx + axis, current_rad)
             ELSE pose

\* the per-track write of AnimationWorker.run on current_pose
write_track(pose, idx, current_rad) ==
    IF idx = GLOBAL_ROTATION
    THEN SetSlot(SetSlot(SetSlot(pose, 0, Zero), 1, current_rad), 2, Zero)
    ELSE LET pose_start_idx == 3 + idx * 3
             axis == axis_map(idx)
         IN  IF 0 <= pose_start_idx + axis /\ pose_start_idx + axis < PoseLen
             THEN SetSlot(SetSlot(SetSlot(SetSlot(pose,
                      pose_start_idx, Zero),
                      pose_start_idx + 1, Zero),
                      pose_start_idx + 2, Zero),
                      pose_start_idx + axis, current_rad)
             ELSE pose

\* a write whose base forgets the three global slots (idx * 3)
update_joint_nobase(pose, value, idx) ==
    LET rad == MulPiOver180(value)
    IN  IF idx = GLOBAL_ROTATION
        THEN SetSlot(SetSlot(SetSlot(pose, 0, Zero), 1, rad), 2, Zero)
        ELSE LET pose_start_idx == idx * 3
                 axis == JOINT_AXIS_MAP(idx)
             IN  IF 0 <= pose_start_idx + axis /\ pose_start_idx + axis < PoseLen
                 THEN SetSlot(SetSlot(SetSlot(SetSlot(pose,
                          pose_start_idx, Zero),
                          pose_start_idx + 1, Zero),
                          pose_start_idx + 2, Zero),
                          pose_start_idx + axis, rad)
                 ELSE pose

\* HumanAnimationSystem._update_joint on the global pose_params
update_joint(pose, value, idx) ==
    LET rad == MulPiOver180(value)
    IN  IF idx = GLOBAL_ROTATION
        THEN SetSlot(SetSlot(SetSlot(pose, 0, Zero), 1, rad), 2, Zero)
        ELSE LET pose_start_idx == 3 + idx * 3
                 axis == JOINT_AXIS_MAP(idx)
             IN  IF 0 <= pose_start_idx + axis /\ pose_start_idx + axis < PoseLen
                 THEN SetSlot(SetSlot(SetSlot(SetSlot(pose,
                          pose_start_idx, Zero),
                          pose_start_idx + 1, Zero),
                          pose_start_idx + 2, Zero),
                          pose_start_idx + axis, rad)
                 ELSE pose

\* ------------------------------------------------- interpolation engine --
Max(a, b) == IF a >= b THEN a ELSE b

\* scipy interp1d(t_points, v_points, kind='quadratic') with
\* t_points = [0, 0.5, 1], evaluated at t = n/d: with three points the
\* spline is the one parabola through them (Lagrange form)
Lagrange3(a0, a1, a2, n, d) ==
    (a0 * (2 * n - d) * (n - d) - 4 * a1 * n * (n - d) + a2 * n * (2 * n - d))
        \div (d * d)
interp1d_quadratic(v0, v1, v2, t) ==
    Real(Lagrange3(v0.r, v1.r, v2.r, t.n, t.d),
         Lagrange3(v0.p, v1.p, v2.p, t.n, t.d))

\* smooth_interpolate of the "smooth" branch
smooth_interpolate(start, end, t) ==
    IF AbsLt001(RSub(end, start))
    THEN start
    ELSE LET sum == RAdd(start, end)
             mid == Real(sum.r \div 2, sum.p \div 2)
         IN  interp1d_quadratic(start, mid, end, t)

\* smooth_interpolate of the else branch: start + (end - start) * t
linear_interpolate(start, end, t) == RAdd(start, MulT(RSub(end, start), t))

\* t = 0 for a single frame
frame_t_zero(frame_idx, total_frames) ==
    IF total_frames > 1
    THEN [n |-> frame_idx, d |-> Max(1, total_frames - 1)]
    ELSE [n |-> 0, d |-> 1]

\* t = frame_idx / total_frames
frame_t_overN(frame_idx, total_frames) ==
    IF total_frames > 1
    THEN [n |-> frame_idx, d |-> total_frames]
    ELSE [n |-> 1, d |-> 1]

\* t of frame frame_idx of total_frames, as the fraction [n, d]
frame_t(frame_idx, total_frames) ==
    IF total_frames > 1
    THEN [n |-> frame_idx, d |-> Max(1, total_frames - 1)]
    ELSE [n |-> 1, d |-> 1]

\* a linear branch that drops the start term
frame_shape_nostart(interp, shape_start, shape_end, t) ==
    IF interp = "smooth"
    THEN smooth_interpolate(shape_start, shape_end, t)
    ELSE MulT(shape_end, t)

\* current_shape_0 of one frame
frame_shape(interp, shape_start, shape_end, t) ==
    IF interp = "smooth"
    THEN smooth_interpolate(shape_start, shape_end, t)
    ELSE RAdd(shape_start, MulT(RSub(shape_end, shape_start), t))

\* interpolating the degrees and converting the result
track_rad_deg(interp, start_val, end_val, t) ==
    IF interp = "smooth"
    THEN MulPiOver180(smooth_interpolate(start_val, end_val, t))
    ELSE MulPiOver180(RAdd(start_val, MulT(RSub(end_val, start_val), t)))

\* current_rad of one track
track_rad(interp, start_val, end_val, t) ==
    IF interp = "smooth"
    THEN smooth_interpolate(MulPiOver180(start_val), MulPiOver180(end_val), t)
    ELSE RAdd(MulPiOver180(start_val),
              MulT(MulPiOver180(RSub(end_val, start_val)), t))

\* the loop `for joint_info in joint_configs` over tracks k..Len, on pose
RECURSIVE apply_tracks(_, _, _, _, _)
apply_tracks(pose, joint_configs, k, interp, t) ==
    IF k > Len(joint_configs)
    THEN pose
    ELSE LET joint_info == joint_configs[k]
             current_rad == track_rad(interp, joint_info.start_val,
                                      joint_info.end_val, t)
         IN  apply_tracks(write_track(pose, joint_info.idx, current_rad),
                          joint_configs, k + 1, interp, t)

\* a frame that starts from the control surface's vector, as if the clone
\* taken by set_state were the base of every frame
frame_pose_from_state(joint_configs, interp, t) ==
    apply_tracks(pose_params, joint_configs, 1, interp, t)

\* current_pose of one frame: a fresh zero vector, then every track
frame_pose(joint_configs, interp, t) ==
    apply_tracks(ZeroPose, joint_configs, 1, interp, t)

\* test.py run(): the per-track write on current_pose, axis from the
\* module's JOINT_AXIS_MAP
test_write_track(pose, idx, current_rad) ==
    IF idx = GLOBAL_ROTATION
    THEN LET axis == JOINT_AXIS_MAP(idx)
         IN  SetSlot(SetSlot(SetSlot(pose,
                 axis, current_rad),
                 IF axis # 0 THEN 0 ELSE 1, Zero),
                 IF axis # 2 THEN 2 ELSE 1, Zero)
    ELSE LET pose_start_idx == 3 + idx * 3
             axis == JOINT_AXIS_MAP(idx)
         IN  IF 0 <= pose_start_idx + axis /\ pose_start_idx + axis < PoseLen
             THEN SetSlot(SetSlot(SetSlot(SetSlot(pose,
                      pose_start_idx, Zero),
                      pose_start_idx + 1, Zero),
                      pose_start_idx + 2, Zero),
                      pose_start_idx + axis, current_rad)
             ELSE pose

\* test.py run(): the loop over joint_configs, tracks k..Len, on pose
RECURSIVE test_apply_tracks(_, _, _, _, _)
test_apply_tracks(pose, joint_configs, k, interp, t) ==
    IF k > Len(joint_configs)
    THEN pose
    ELSE LET joint_info == joint_configs[k]
             current_rad == track_rad(interp, joint_info.start_val,
                                      joint_info.end_val, t)
         IN  test_apply_tracks(test_write_track(pose, joint_info.idx, current_rad),
                               joint_configs, k + 1, interp, t)

\* test.py run(): current_pose of one frame
test_frame_pose(joint_configs, interp, t) ==
    test_apply_tracks(ZeroPose, joint_configs, 1, interp, t)

\* test.py run(): progress is emitted for the frames with
\* frame_idx % max(1, total_frames // 10) == 0, as int(t * 100)
test_progress_due(frame_idx, total_frames) ==
    frame_idx % Max(1, total_frames \div 10) = 0
test_progress_of(t) == (t.n * 100) \div t.d

\* the percentage after the frame instead of before it
progress_of_next(frame_idx, total_frames) ==
    ((frame_idx + 1) * 100) \div total_frames

\* int((frame_idx / total_frames) * 100)
progress_of(frame_idx, total_frames) == (frame_idx * 100) \div total_frames

\* the decimal digits of n >= 0, most significant first
RECURSIVE Digits(_)
Digits(n) == IF n < 10 THEN <<n>> ELSE Append(Digits(n \div 10), n % 10)
\* zero padding on the left up to width w
RECURSIVE ZeroPad(_, _)
ZeroPad(ds, w) == IF Len(ds) >= w THEN ds ELSE ZeroPad(<<0>> \o ds, w)

\* the name numbered like the figure title, "Frame {frame_idx + 1}"
frame_name_title(frame_idx) ==
    [stem |-> "frame_", digits |-> ZeroPad(Digits(frame_idx + 1), 4),
     ext |-> ".png"]

\* f"frame_{frame_idx:04d}.png"
frame_name(frame_idx) ==
    [stem |-> "frame_", digits |-> ZeroPad(Digits(frame_idx), 4),
     ext |-> ".png"]

\* --------------------------------------------------------------- inputs --
Track(idx, s, e) == [idx |-> idx, start_val |-> s, end_val |-> e]

TrackLists ==
    { <<>>,
      <<Track(GLOBAL_ROTATION, Num(0), Num(90))>>,
      <<Track(GLOBAL_ROTATION, Num(0), Half)>>,
      <<Track(3, Num(-45), Num(45))>>,
      <<Track(16, Num(30), Num(-60)), Track(GLOBAL_ROTATION, Num(90), Num(0))>>,
      <<Track(5, Num(0), Num(30)), Track(5, Num(90), Num(-90))>>,
      <<Track(51, Num(0), Num(90)), Track(3, Num(-45), Num(45))>> }

ShapeStarts == {Num(0), Num(-2)}
ShapeEnds == {Num(6), Milli5, Num(0)}
Interpolations == {"linear", "smooth"}

\* pose vectors the sliders of the control surface can have produced
SurfacePoses ==
    { ZeroPose,
      update_joint(update_joint(ZeroPose, Num(30), GLOBAL_ROTATION), Num(-90), 3) }

\* prior contents of a pose vector handed to a single joint write
PriorPoses == {ZeroPose, [s \in Slots |-> Real(0, (s + 1) * Q)]}
WriteValues == {Num(-90), Num(30)}
NoWrite == [writer |-> "none", idx |-> 0, rad |-> Zero, before |-> ZeroPose]

Emit(sig, val) == [sig |-> sig, val |-> val]

\* ------------------------------------------------------ window widgets --
\* ui.py core_joints: the joints the window offers a slider for
CoreJoints == {GLOBAL_ROTATION, 3, 2, 5, 11, 16, 17, 18, 19, 6}

\* config.py view defaults
DEFAULT_ELEV == 20
DEFAULT_AZIM == 45
DEFAULT_DIST == 10

\* QSlider.setValue(v) on a slider of range lo .. hi: the value is bound to
\* the range
slider_value(v, lo, hi) == IF v < lo THEN lo ELSE IF v > hi THEN hi ELSE v

View(elev, azim, dist) == [elev |-> elev, azim |-> azim, dist |-> dist]

\* elev_slider, azim_slider and dist_slider after setValue(int(.)) on each
view_slider_values(elev, azim, dist) ==
    View(slider_value(elev, -90, 90), slider_value(azim, -180, 180),
         slider_value(dist, 50, 200))

\* the widgets and the view globals when the window has been constructed:
\* every shape and joint slider at 0, the view globals at the defaults of
\* config.py and the view sliders at setValue of the defaults
WidgetsInit ==
    /\ shape_slider = Zero
    /\ core_sliders = [idx \in CoreJoints |-> Zero]
    /\ current_view = View(DEFAULT_ELEV, DEFAULT_AZIM, DEFAULT_DIST)
    /\ view_sliders = view_slider_values(DEFAULT_ELEV, DEFAULT_AZIM,
                                         DEFAULT_DIST)
    /\ saved_views = {}

\* ----------------------------------------------------------------- Init --
\* a constructed worker after set_params, about to be started; the module
\* global _body_model is None unless set_globals has stored a model, and the
\* control surface's pose vector is whatever its sliders left in it
Init ==
    /\ mode = "run"
    /\ frames \in 0 .. MaxFrames
    /\ interpolation \in Interpolations
    /\ \E ss \in ShapeStarts, se \in ShapeEnds, jc \in TrackLists :
           anim_params = [shape_start |-> ss, shape_end |-> se, joints |-> jc]
    /\ pc = "ready"
    /\ frame_params = <<>>
    /\ t_log = <<>>
    /\ current_pose = ZeroPose
    /\ render_idx = 0
    /\ emitted = <<>>
    /\ rendered = <<>>
    /\ files = {}
    /\ pose_params \in SurfacePoses
    /\ last = NoWrite
    /\ writes = 0
    /\ shape_params = ZeroShape
    /\ body_model \in {"None", "smplx"}
    /\ canvas = "placeholder"
    /\ generate_btn = TRUE
    /\ handled = 0
    /\ active = 0
    /\ app = "up"
    /\ WidgetsInit

\* ------------------------------------------------------ AnimationWorker --
\* "run": the worker on its own; "live": the worker next to a window whose
\* sliders stay usable while it runs
WorkerModes == {"run", "live"}

\* arguments taken from the module globals, as the workers of test.py and
\* main.py do
render_args_globals(frame_idx) ==
    [shape_0 |-> shape_params[0], pose |-> pose_params]

\* the (shape_0, pose) of `for frame_idx, (shape_0, pose) in
\* enumerate(frame_params)`, passed on to _render_frame
render_args(frame_idx) == frame_params[frame_idx + 1]

\* run(): mkdir succeeds, progress 0 is emitted, the parameters are read
RunInit ==
    /\ mode \in WorkerModes /\ pc = "ready"
    /\ emitted' = Append(emitted, Emit("progress", 0))
    /\ pc' = IF frames > 0 THEN "compute" ELSE "render"
    /\ UNCHANGED <<frames, interpolation, anim_params, mode, frame_params,
                   t_log, current_pose, render_idx, rendered, files,
                   pose_params, last, writes, surfaceVars>>

\* run(): Path(...).mkdir raises; the handler emits error_signal
RunInitFails ==
    /\ mode \in WorkerModes /\ pc = "ready"
    /\ emitted' = Append(emitted, Emit("error", 0))
    /\ pc' = "failed"
    /\ UNCHANGED <<frames, interpolation, anim_params, mode, frame_params,
                   t_log, current_pose, render_idx, rendered, files,
                   pose_params, last, writes, surfaceVars>>

\* run(): one iteration of `for frame_idx in range(total_frames)`
ComputeFrame ==
    /\ mode \in WorkerModes /\ pc = "compute"
    /\ LET frame_idx == Len(frame_params)
           t == frame_t(frame_idx, frames)
           current_shape_0 == frame_shape(interpolation, anim_params.shape_start,
                                          anim_params.shape_end, t)
           pose == frame_pose(anim_params.joints, interpolation, t)
       IN  /\ frame_params' = Append(frame_params,
                                     [shape_0 |-> current_shape_0, pose |-> pose])
           /\ t_log' = Append(t_log, t)
           /\ current_pose' = pose
           /\ pc' = IF frame_idx + 1 < frames THEN "compute" ELSE "render"
    /\ UNCHANGED <<frames, interpolation, anim_params, mode, render_idx,
                   emitted, rendered, files, pose_params, last, writes, surfaceVars>>

\* run(): one iteration of `for frame_idx, ... in enumerate(frame_params)`:
\* the progress signal, then _render_frame, which saves the file (ok) or
\* catches its own exception, prints it and returns (~ok)
RenderFrame ==
    /\ mode \in WorkerModes /\ pc = "render"
    /\ render_idx < Len(frame_params)
    /\ \E ok \in BOOLEAN :
        /\ emitted' = Append(emitted,
                             Emit("progress", progress_of(render_idx, frames)))
        /\ rendered' = Append(rendered,
                              [frame_idx |-> render_idx,
                               shape_0 |-> render_args(render_idx).shape_0,
                               pose |-> render_args(render_idx).pose,
                               called |-> body_model # "None",
                               betas |-> IF body_model # "None"
                                         THEN shape_tensor(render_args(render_idx).shape_0)
                                         ELSE ZeroShape,
                               file |-> frame_name(render_idx),
                               saved |-> ok])
        /\ files' = IF ok THEN files \cup {frame_name(render_idx)} ELSE files
    /\ render_idx' = render_idx + 1
    /\ UNCHANGED <<frames, interpolation, anim_params, mode, pc, frame_params,
                   t_log, current_pose, pose_params, last, writes, surfaceVars>>

\* a finish whose last statement raises into the handler
RunFinishThenError ==
    /\ mode \in WorkerModes /\ pc = "render"
    /\ render_idx = Len(frame_params)
    /\ emitted' = Append(Append(Append(emitted, Emit("progress", 100)),
                                Emit("finished", 0)), Emit("error", 0))
    /\ pc' = "failed"
    /\ UNCHANGED <<frames, interpolation, anim_params, mode, frame_params,
                   t_log, current_pose, render_idx, rendered, files,
                   pose_params, last, writes, surfaceVars>>

\* run(): after the last frame, progress 100 and finished_signal
RunFinish ==
    /\ mode \in WorkerModes /\ pc = "render"
    /\ render_idx = Len(frame_params)
    /\ emitted' = Append(Append(emitted, Emit("progress", 100)),
                         Emit("finished", 0))
    /\ pc' = "done"
    /\ UNCHANGED <<frames, interpolation, anim_params, mode, frame_params,
                   t_log, current_pose, render_idx, rendered, files,
                   pose_params, last, writes, surfaceVars>>

RunNext == RunInit \/ RunInitFails \/ ComputeFrame \/ RenderFrame \/ RunFinish

Next == RunNext

Spec == Init /\ [][Next]_vars

\* the worker thread, once started, keeps executing run()
FairSpec == Spec /\ WF_vars(RunNext)

\* ------------------------------------------------- single joint writes ---
\* a pose vector with arbitrary prior contents, written one joint at a time
\* by the control surface (pose_params) and by the worker (current_pose)
CodecInit ==
    /\ mode = "codec"
    /\ frames = 0
    /\ interpolation = "linear"
    /\ anim_params = [shape_start |-> Zero, shape_end |-> Zero, joints |-> <<>>]
    /\ pc = "ready"
    /\ frame_params = <<>>
    /\ t_log = <<>>
    /\ render_idx = 0
    /\ emitted = <<>>
    /\ rendered = <<>>
    /\ files = {}
    /\ \E prior \in PriorPoses : pose_params = prior /\ current_pose = prior
    /\ last = NoWrite
    /\ writes = 0
    /\ shape_params = ZeroShape
    /\ body_model = "None"
    /\ canvas = "placeholder"
    /\ generate_btn = TRUE
    /\ handled = 0
    /\ active = 0
    /\ app = "up"
    /\ WidgetsInit

\* HumanAnimationSystem._update_joint(value, idx)
UpdateJoint ==
    /\ mode = "codec" /\ writes < MaxWrites
    /\ last.writer \in {"none", "ui"}
    /\ \E value \in WriteValues, idx \in Joints :
        /\ pose_params' = update_joint(pose_params, value, idx)
        /\ last' = [writer |-> "ui", idx |-> idx, rad |-> MulPiOver180(value),
                    before |-> pose_params]
    /\ writes' = writes + 1
    /\ UNCHANGED <<runVars, mode, current_pose, surfaceVars>>

\* the body of `for joint_info in joint_configs` after current_rad is known
WriteTrack ==
    /\ mode = "codec" /\ writes < MaxWrites
    /\ last.writer \in {"none", "worker"}
    /\ \E value \in WriteValues, idx \in Joints :
        /\ current_pose' = write_track(current_pose, idx, MulPiOver180(value))
        /\ last' = [writer |-> "worker", idx |-> idx, rad |-> MulPiOver180(value),
                    before |-> current_pose]
    /\ writes' = writes + 1
    /\ UNCHANGED <<runVars, mode, pose_params, surfaceVars>>

CodecNext == UpdateJoint \/ WriteTrack

SpecCodec == CodecInit /\ [][CodecNext]_vars

\* ------------------------------------------------- control surface ------
\* HumanAnimationSystem with its worker thread.  mode "ui" is ui.py, whose
\* worker class is the one of animation_worker.py; mode "test" is test.py,
\* whose worker shares the module globals shape_params and pose_params with
\* the window.  The slider, load and render handlers are the same statements
\* in both files; the view globals and view sliders are those of ui.py.
\* mode "window" is the window of ui.py on its own, with every slider of
\* core_joints in use.
SurfaceModes == {"ui", "test"}
SliderShapes == {Num(-5)}
SliderJoints == {3}
SliderDegrees == {Num(45)}
WindowShapes == {Num(-5), Num(0)}
WindowDegrees == {Num(45), Num(0)}
SpinFrames == {1, 2}
SpinTracks == { <<>>, <<Track(3, Num(0), Num(30))>> }
SpinShapeStart == Num(-2)
SpinShapeEnd == Num(3)

SurfaceInit ==
    /\ mode \in SurfaceModes
    /\ frames = 0
    /\ interpolation = "linear"
    /\ anim_params = [shape_start |-> Zero, shape_end |-> Zero, joints |-> <<>>]
    /\ pc = "ready"
    /\ frame_params = <<>>
    /\ t_log = <<>>
    /\ current_pose = ZeroPose
    /\ render_idx = 0
    /\ emitted = <<>>
    /\ rendered = <<>>
    /\ files = {}
    /\ pose_params = ZeroPose
    /\ last = NoWrite
    /\ writes = 0
    /\ shape_params = ZeroShape
    /\ body_model = "None"
    /\ canvas = "placeholder"
    /\ generate_btn = TRUE
    /\ handled = 0
    /\ active = 0
    /\ app = "up"
    /\ WidgetsInit

workerVars == <<frames, interpolation, anim_params, pc, frame_params, t_log,
                current_pose, render_idx, emitted, rendered, files>>

\* a render that goes to the body model call whatever body_model is
update_render_call(model) == {"mesh", "error"}

\* _update_render(): the placeholder text when no model is loaded, else the
\* body model is called and the mesh is drawn, or the error text if it raises
update_render(model) ==
    IF model = "None" THEN {"placeholder"} ELSE {"mesh", "error"}

\* the UI thread can run a handler
UiIdle == mode \in SurfaceModes \cup {"live", "window"} /\ app = "up"

\* _load_smplx_model(): smplx.create succeeds and the model is drawn, or no
\* model is found and a warning is shown
LoadSmplxModel ==
    /\ UiIdle
    /\ \/ /\ body_model' = "smplx"
          /\ canvas' \in update_render("smplx")
       \/ UNCHANGED <<body_model, canvas>>
    /\ UNCHANGED <<workerVars, mode, pose_params, last, writes, shape_params,
                   generate_btn, handled, active, app, sliderVars, viewVars>>

\* the values a user moves the shape slider and the joint sliders to
slider_shapes == IF mode = "window" THEN WindowShapes ELSE SliderShapes
slider_degrees == IF mode = "window" THEN WindowDegrees ELSE SliderDegrees
slider_joints == IF mode = "window" THEN CoreJoints ELSE SliderJoints

\* shape_slider moves to value: valueChanged fires when the value changes,
\* and its slot is _update_shape(value)
UpdateShape ==
    /\ UiIdle
    /\ \E value \in slider_shapes :
           /\ value # shape_slider
           /\ shape_slider' = value
           /\ shape_params' = [shape_params EXCEPT ![0] = value]
    /\ canvas' \in update_render(body_model)
    /\ UNCHANGED <<workerVars, mode, pose_params, last, writes, body_model,
                   generate_btn, handled, active, app, core_sliders,
                   viewVars>>

\* core_sliders[idx] moves to value: valueChanged fires when the value
\* changes, and its slot is _update_joint(value, idx)
UpdateJointSlider ==
    /\ UiIdle
    /\ \E value \in slider_degrees, idx \in slider_joints :
           /\ value # core_sliders[idx]
           /\ core_sliders' = [core_sliders EXCEPT ![idx] = value]
           /\ pose_params' = update_joint(pose_params, value, idx)
    /\ canvas' \in update_render(body_model)
    /\ UNCHANGED <<workerVars, mode, last, writes, shape_params, body_model,
                   generate_btn, handled, active, app, shape_slider,
                   viewVars>>

\* _set_view(elev, azim, dist): the globals take the arguments, the sliders
\* take setValue of them with their signals blocked
set_view(elev, azim, dist) ==
    /\ current_view' = View(elev, azim, dist)
    /\ view_sliders' = view_slider_values(elev, azim, dist)

\* a reset that leaves the joint sliders where they are
reset_sliders_keep == core_sliders

\* the joint sliders after the setValue(0) loop of _reset_all
reset_sliders == [idx \in CoreJoints |-> Zero]

\* _reset_all(): the globals are rebound to zeros, every slider is set to
\* 0 (the slots this fires write zeros into the zero vectors), and in ui.py
\* the view is reset
ResetAll ==
    /\ UiIdle
    /\ shape_params' = ZeroShape
    /\ pose_params' = ZeroPose
    /\ shape_slider' = Zero
    /\ core_sliders' = reset_sliders
    /\ IF mode = "test"
         THEN UNCHANGED <<current_view, view_sliders>>
         ELSE set_view(DEFAULT_ELEV, DEFAULT_AZIM, DEFAULT_DIST)
    /\ canvas' \in update_render(body_model)
    /\ UNCHANGED <<workerVars, mode, last, writes, body_model, generate_btn,
                   handled, active, app, saved_views>>

\* a start that leaves the button as it is
generate_start_enabled(n, jc) ==
    /\ frames' = n
    /\ interpolation' = "linear"
    /\ anim_params' = [shape_start |-> SpinShapeStart,
                       shape_end |-> SpinShapeEnd, joints |-> jc]
    /\ pc' = "start"
    /\ frame_params' = <<>>
    /\ t_log' = <<>>
    /\ current_pose' = ZeroPose
    /\ render_idx' = 0
    /\ rendered' = <<>>
    /\ emitted' = <<>>
    /\ handled' = 0
    /\ generate_btn' = generate_btn
    /\ active' = active + 1
    /\ UNCHANGED <<files, app>>

\* test.py _generate_animation from the construction of the worker on: the
\* thread object replaces the previous one, its signals are connected, the
\* button is disabled and the thread is started
generate_start(n, jc) ==
    /\ frames' = n
    /\ interpolation' = "linear"
    /\ anim_params' = [shape_start |-> SpinShapeStart,
                       shape_end |-> SpinShapeEnd, joints |-> jc]
    /\ pc' = "start"
    /\ frame_params' = <<>>
    /\ t_log' = <<>>
    /\ current_pose' = ZeroPose
    /\ render_idx' = 0
    /\ rendered' = <<>>
    /\ emitted' = <<>>
    /\ handled' = 0
    /\ generate_btn' = FALSE
    /\ active' = active + 1
    /\ UNCHANGED <<files, app>>

\* ui.py _generate_animation from the construction of the worker on: the
\* worker gets its parameters, then set_globals is called with four
\* arguments for six parameters and raises TypeError out of the slot; Qt
\* either aborts the application or prints the traceback and carries on
generate_raise(n, jc) ==
    /\ frames' = n
    /\ interpolation' = "linear"
    /\ anim_params' = [shape_start |-> SpinShapeStart,
                       shape_end |-> SpinShapeEnd, joints |-> jc]
    /\ app' \in {"up", "aborted"}
    /\ UNCHANGED <<pc, frame_params, t_log, current_pose, render_idx, rendered,
                   emitted, handled, generate_btn, active, files>>

\* _generate_animation(), the slot of the generate button's clicked signal
GenerateAnimation ==
    /\ UiIdle
    /\ generate_btn
    /\ \/ /\ body_model = "None"
          /\ UNCHANGED <<workerVars, handled, generate_btn, active, app>>
       \/ /\ body_model # "None"
          /\ \E n \in SpinFrames, jc \in SpinTracks :
               \/ /\ jc = <<>>
                  /\ UNCHANGED <<workerVars, handled, generate_btn, active, app>>
               \/ /\ mode = "ui"
                  /\ generate_raise(n, jc)
               \/ /\ mode = "test"
                  /\ generate_start(n, jc)
    /\ UNCHANGED <<mode, pose_params, last, writes, shape_params, body_model,
                   canvas, sliderVars, viewVars>>

\* the UI thread takes the next queued signal of the worker
NextSignal == emitted[handled + 1]
SignalQueued == UiIdle /\ handled < Len(emitted)

\* _on_animation_progress(value, message)
OnAnimationProgress ==
    /\ SignalQueued
    /\ NextSignal.sig = "progress"
    /\ handled' = handled + 1
    /\ UNCHANGED <<workerVars, mode, pose_params, last, writes, shape_params,
                   body_model, canvas, generate_btn, active, app, sliderVars,
                   viewVars>>

\* _on_animation_finished(output_path)
OnAnimationFinished ==
    /\ SignalQueued
    /\ NextSignal.sig = "finished"
    /\ handled' = handled + 1
    /\ generate_btn' = TRUE
    /\ active' = active - 1
    /\ UNCHANGED <<workerVars, mode, pose_params, last, writes, shape_params,
                   body_model, canvas, app, sliderVars, viewVars>>

\* _on_animation_error(error_message)
OnAnimationError ==
    /\ SignalQueued
    /\ NextSignal.sig = "error"
    /\ handled' = handled + 1
    /\ generate_btn' = TRUE
    /\ active' = active - 1
    /\ UNCHANGED <<workerVars, mode, pose_params, last, writes, shape_params,
                   body_model, canvas, app, sliderVars, viewVars>>

\* ---- the worker thread of test.py ----
uiVars == <<mode, last, writes, body_model, canvas, generate_btn, handled,
            active, app, sliderVars, viewVars>>

\* run(): mkdir succeeds and progress 0 is emitted
TestRunInit ==
    /\ mode = "test" /\ pc = "start"
    /\ emitted' = Append(emitted, Emit("progress", 0))
    /\ pc' = IF frames > 0 THEN "compute" ELSE "finish"
    /\ UNCHANGED <<frames, interpolation, anim_params, frame_params, t_log,
                   current_pose, render_idx, rendered, files, pose_params,
                   shape_params, uiVars>>

\* run(): Path(...).mkdir raises; the handler emits error_signal
TestRunInitFails ==
    /\ mode = "test" /\ pc = "start"
    /\ emitted' = Append(emitted, Emit("error", 0))
    /\ pc' = "failed"
    /\ UNCHANGED <<frames, interpolation, anim_params, frame_params, t_log,
                   current_pose, render_idx, rendered, files, pose_params,
                   shape_params, uiVars>>

\* run(): frame frame_idx is computed into the locals current_shape and
\* current_pose, then `shape_params = current_shape.clone()` rebinds the
\* module global
TestComputeFrame ==
    /\ mode = "test" /\ pc = "compute"
    /\ LET frame_idx == render_idx
           t == frame_t(frame_idx, frames)
           current_shape_0 == frame_shape(interpolation, anim_params.shape_start,
                                          anim_params.shape_end, t)
           pose == test_frame_pose(anim_params.joints, interpolation, t)
       IN  /\ frame_params' = Append(frame_params,
                                     [shape_0 |-> current_shape_0, pose |-> pose])
           /\ t_log' = Append(t_log, t)
           /\ current_pose' = pose
           /\ shape_params' = shape_tensor(current_shape_0)
    /\ pc' = "assign"
    /\ UNCHANGED <<frames, interpolation, anim_params, render_idx, emitted,
                   rendered, files, pose_params, uiVars>>

\* run(): `pose_params = current_pose.clone()` rebinds the module global,
\* then the progress signal of the frame, if one is due
TestAssignPose ==
    /\ mode = "test" /\ pc = "assign"
    /\ pose_params' = current_pose
    /\ emitted' = IF test_progress_due(render_idx, frames)
                  THEN Append(emitted,
                              Emit("progress", test_progress_of(t_log[render_idx + 1])))
                  ELSE emitted
    /\ pc' = "render"
    /\ UNCHANGED <<frames, interpolation, anim_params, frame_params, t_log,
                   current_pose, render_idx, rendered, files, shape_params,
                   uiVars>>

\* run(): _render_frame(frame_idx) reads the module globals shape_params and
\* pose_params, calls the body model with them, and saves the file (ok) or
\* catches its own exception (~ok)
TestRenderFrame ==
    /\ mode = "test" /\ pc = "render"
    /\ \E ok \in BOOLEAN :
        /\ rendered' = Append(rendered,
                              [frame_idx |-> render_idx,
                               shape_0 |-> shape_params[0],
                               pose |-> pose_params,
                               called |-> body_model # "None",
                               betas |-> IF body_model # "None"
                                         THEN shape_params ELSE ZeroShape,
                               file |-> frame_name(render_idx),
                               saved |-> ok])
        /\ files' = IF ok THEN files \cup {frame_name(render_idx)} ELSE files
    /\ render_idx' = render_idx + 1
    /\ pc' = IF render_idx + 1 < frames THEN "compute" ELSE "finish"
    /\ UNCHANGED <<frames, interpolation, anim_params, frame_params, t_log,
                   current_pose, emitted, pose_params, shape_params, uiVars>>

\* run(): after the last frame, progress 100 and finished_signal
TestRunFinish ==
    /\ mode = "test" /\ pc = "finish"
    /\ emitted' = Append(Append(emitted, Emit("progress", 100)),
                         Emit("finished", 0))
    /\ pc' = "done"
    /\ UNCHANGED <<frames, interpolation, anim_params, frame_params, t_log,
                   current_pose, render_idx, rendered, files, pose_params,
                   shape_params, uiVars>>

TestRunNext ==
    \/ TestRunInit \/ TestRunInitFails \/ TestComputeFrame \/ TestAssignPose
    \/ TestRenderFrame \/ TestRunFinish

SurfaceNext ==
    \/ LoadSmplxModel \/ UpdateShape \/ UpdateJointSlider \/ ResetAll
    \/ GenerateAnimation
    \/ OnAnimationProgress \/ OnAnimationFinished \/ OnAnimationError
    \/ TestRunNext

SpecSurface == SurfaceInit /\ [][SurfaceNext]_vars

\* ---- the worker of animation_worker.py next to live sliders ----
\* a started worker with a model set, and a window in its initial state
LiveInit ==
    /\ mode = "live"
    /\ frames \in SpinFrames
    /\ interpolation \in Interpolations
    /\ \E jc \in SpinTracks :
           anim_params = [shape_start |-> SpinShapeStart,
                          shape_end |-> SpinShapeEnd, joints |-> jc]
    /\ pc = "ready"
    /\ frame_params = <<>>
    /\ t_log = <<>>
    /\ current_pose = ZeroPose
    /\ render_idx = 0
    /\ emitted = <<>>
    /\ rendered = <<>>
    /\ files = {}
    /\ pose_params = ZeroPose
    /\ last = NoWrite
    /\ writes = 0
    /\ shape_params = ZeroShape
    /\ body_model = "smplx"
    /\ canvas = "mesh"
    /\ generate_btn = FALSE
    /\ handled = 0
    /\ active = 1
    /\ app = "up"
    /\ WidgetsInit

SliderNext == UpdateShape \/ UpdateJointSlider \/ ResetAll

SpecLive == LiveInit /\ [][RunNext \/ SliderNext]_vars

\* ---- the window of ui.py on its own ----
\* the constructed window, before or after a model has been loaded
WindowInit ==
    /\ mode = "window"
    /\ frames = 0
    /\ interpolation = "linear"
    /\ anim_params = [shape_start |-> Zero, shape_end |-> Zero, joints |-> <<>>]
    /\ pc = "ready"
    /\ frame_params = <<>>
    /\ t_log = <<>>
    /\ current_pose = ZeroPose
    /\ render_idx = 0
    /\ emitted = <<>>
    /\ rendered = <<>>
    /\ files = {}
    /\ pose_params = ZeroPose
    /\ last = NoWrite
    /\ writes = 0
    /\ shape_params = ZeroShape
    /\ \/ body_model = "None" /\ canvas = "placeholder"
       \/ body_model = "smplx" /\ canvas = "mesh"
    /\ generate_btn = TRUE
    /\ handled = 0
    /\ active = 0
    /\ app = "up"
    /\ WidgetsInit

SpecSliders == WindowInit /\ [][SliderNext]_vars

\* the values a user moves the view sliders to
ViewElevs == {-90}
ViewAzims == {180}
ViewDists == {200}

\* config.py VIEW_PRESETS, in its order: front, back, left, right, top,
\* bottom, default
VIEW_PRESETS ==
    { [elev |-> 0, azim |-> 0], [elev |-> 0, azim |-> 180],
      [elev |-> 0, azim |-> 90], [elev |-> 0, azim |-> -90],
      [elev |-> 60, azim |-> 0], [elev |-> -30, azim |-> 0],
      [elev |-> DEFAULT_ELEV, azim |-> DEFAULT_AZIM] }

\* the name typed into the dialog of _save_current_view
ViewNames == {"view1"}

viewRest == <<workerVars, mode, pose_params, last, writes, shape_params,
              body_model, generate_btn, handled, active, app, sliderVars>>

\* _on_view_change(): the slot of the three view sliders' valueChanged; the
\* three globals take the values of the three sliders
on_view_change(sliders) ==
    /\ view_sliders' = sliders
    /\ current_view' = sliders
    /\ canvas' \in update_render(body_model)
    /\ UNCHANGED <<viewRest, saved_views>>

\* elev_slider moves to a new value
MoveElevSlider ==
    /\ UiIdle
    /\ \E v \in ViewElevs :
           /\ v # view_sliders.elev
           /\ on_view_change([view_sliders EXCEPT !.elev = v])

\* azim_slider moves to a new value
MoveAzimSlider ==
    /\ UiIdle
    /\ \E v \in ViewAzims :
           /\ v # view_sliders.azim
           /\ on_view_change([view_sliders EXCEPT !.azim = v])

\* dist_slider moves to a new value
MoveDistSlider ==
    /\ UiIdle
    /\ \E v \in ViewDists :
           /\ v # view_sliders.dist
           /\ on_view_change([view_sliders EXCEPT !.dist = v])

\* _apply_preset_view(preset_name)
ApplyPresetView ==
    /\ UiIdle
    /\ \E preset \in VIEW_PRESETS :
           set_view(preset.elev, preset.azim, DEFAULT_DIST)
    /\ canvas' \in update_render(body_model)
    /\ UNCHANGED <<viewRest, saved_views>>

\* _reset_view()
ResetView ==
    /\ UiIdle
    /\ set_view(DEFAULT_ELEV, DEFAULT_AZIM, DEFAULT_DIST)
    /\ canvas' \in update_render(body_model)
    /\ UNCHANGED <<viewRest, saved_views>>

\* _save_current_view() with the dialog accepted: the entry of that name is
\* set to the view globals, DEFAULT_DIST standing in for a distance of 0
SaveCurrentView ==
    /\ UiIdle
    /\ \E view_name \in ViewNames :
           saved_views' =
               {v \in saved_views : v.name # view_name} \cup
               {[name |-> view_name,
                 elev |-> current_view.elev,
                 azim |-> current_view.azim,
                 dist |-> IF current_view.dist # 0 THEN current_view.dist
                          ELSE DEFAULT_DIST]}
    /\ UNCHANGED <<viewRest, canvas, current_view, view_sliders>>

\* _load_saved_view(view_name) for a name of the list
LoadSavedView ==
    /\ UiIdle
    /\ \E view \in saved_views : set_view(view.elev, view.azim, view.dist)
    /\ canvas' \in update_render(body_model)
    /\ UNCHANGED <<viewRest, saved_views>>

\* _delete_saved_view(view_name) for a name of the list
DeleteSavedView ==
    /\ UiIdle
    /\ \E view \in saved_views : saved_views' = saved_views \ {view}
    /\ UNCHANGED <<viewRest, canvas, current_view, view_sliders>>

ViewNext ==
    \/ MoveElevSlider
    \/ MoveAzimSlider
    \/ MoveDistSlider
    \/ ApplyPresetView
    \/ ResetView
    \/ SaveCurrentView
    \/ LoadSavedView
    \/ DeleteSavedView

SpecView == WindowInit /\ [][ViewNext]_vars

\* the worker used on its own and the control surfaces, side by side
SpecProgram == (Init \/ SurfaceInit) /\ [][Next \/ SurfaceNext]_vars

\* ============================================================ properties =
\* the three slots of a joint, and the slot its angle goes to
Triple(j) == IF j = GLOBAL_ROTATION THEN {0, 1, 2}
             ELSE {3 + 3 * j, 3 + 3 * j + 1, 3 + 3 * j + 2}
DominantSlot(writer, j) ==
    IF j = GLOBAL_ROTATION THEN 1
    ELSE IF writer = "ui" THEN 3 + 3 * j + JOINT_AXIS_MAP(j)
    ELSE 3 + 3 * j + axis_map(j)
\* the vector the latest single write went to
Written == IF last.writer = "ui" THEN pose_params ELSE current_pose

\* C1 (full overwrite): after one joint write by either writer, whatever the
\* three slots held before, the joint's dominant slot holds the new angle and
\* its other two slots hold 0.
C1_FullOverwrite ==
    last.writer # "none" =>
        /\ last.idx \in Joints
        /\ Written[DominantSlot(last.writer, last.idx)] = last.rad
        /\ \A s \in Triple(last.idx) \ {DominantSlot(last.writer, last.idx)} :
               Written[s] = Zero

\* a worker write of a non-zero angle to right_wrist over three non-zero slots
C1_Witness ==
    /\ last.writer = "worker" /\ last.idx = 21 /\ last.rad # Zero
    /\ \A s \in Triple(21) : last.before[s] # Zero

\* C2 (zero contamination): the slot triples of distinct joints are disjoint,
\* and a write of joint j1 leaves the three slots of every other joint j2 as
\* they were, after any earlier writes.
C2_ZeroContamination ==
    last.writer # "none" =>
        \A j2 \in Joints \ {last.idx} :
            /\ Triple(j2) \cap Triple(last.idx) = {}
            /\ \A s \in Triple(j2) : Written[s] = last.before[s]

\* the control surface writes pelvis after an earlier write left a non-zero
\* angle in another joint, over a vector whose global slots are non-zero
C2_Witness ==
    /\ last.writer = "ui" /\ last.idx = 0 /\ writes >= 2
    /\ \E j2 \in RegistryIds \ {0} :
           last.before[DominantSlot("ui", j2)] = MulPiOver180(Num(30))
    /\ \A s \in Triple(GLOBAL_ROTATION) : last.before[s] # Zero

\* ------------------------------------------------------ run properties ---
IsProgress(e) == e.sig = "progress"
IsTerminal(e) == e.sig \in {"finished", "error"}
Progress == SelectSeq(emitted, IsProgress)
Terminals == SelectSeq(emitted, IsTerminal)
HasFinished == \E k \in 1 .. Len(emitted) : emitted[k].sig = "finished"
HasError == \E k \in 1 .. Len(emitted) : emitted[k].sig = "error"
Has100 == \E k \in 1 .. Len(emitted) : emitted[k] = Emit("progress", 100)
RenderRaised == \E k \in 1 .. Len(rendered) : ~rendered[k].saved
Ended == pc \in {"done", "failed"}

\* C3 (a failed frame fails the run): as soon as the render of a frame has
\* raised, the run is FAILED with error_signal emitted, finished_signal is
\* not emitted, and no frame with a larger index is rendered.
C3_RenderFailureAborts ==
    \A k \in 1 .. Len(rendered) :
        ~rendered[k].saved =>
            /\ k = Len(rendered)
            /\ pc = "failed"
            /\ HasError
            /\ ~HasFinished

\* C4 (one terminal signal): a terminal signal is only ever the last
\* emission, so there is at most one and only progress comes before it;
\* nothing is emitted after it; and every started run reaches it.
C4_ExactlyOneTerminal ==
    /\ [](\A k \in 1 .. Len(emitted) :
              IsTerminal(emitted[k]) => k = Len(emitted))
    /\ [][Len(Terminals) > 0 => emitted' = emitted]_vars
    /\ <>(Len(Terminals) = 1 /\ Ended)

\* a completed run that emitted progress for two frames before finishing
C4_Witness ==
    /\ pc = "done" /\ Len(rendered) = 2
    /\ Len(Progress) = 4 /\ emitted[Len(emitted)].sig = "finished"

\* C5 (monotonic progress): in a completed run of N >= 1 frames the progress
\* percents are non-decreasing, all within 0..100, the last one is 100 and
\* 100 occurs exactly once.
C5_MonotonicProgress ==
    (pc = "done" /\ frames >= 1) =>
        /\ Len(Progress) >= 1
        /\ \A k \in 1 .. Len(Progress) :
               /\ Progress[k].val \in 0 .. 100
               /\ k < Len(Progress) => Progress[k].val <= Progress[k + 1].val
        /\ Progress[Len(Progress)].val = 100
        /\ Cardinality({k \in 1 .. Len(Progress) : Progress[k].val = 100}) = 1

\* a completed three-frame run: percents 0, 0, 33, 66, 100
C5_Witness ==
    /\ pc = "done" /\ frames = 3
    /\ Len(Progress) = 5 /\ Progress[4].val = 66

\* C6 (100 only with success): progress 100 is emitted iff finished_signal
\* is, directly before it; and a run in which an internal exception occurred
\* (mkdir or a frame's render) ends with a single error_signal and no 100.
C6_HundredOnlyOnSuccess ==
    /\ Has100 <=> HasFinished
    /\ \A k \in 1 .. Len(emitted) :
           emitted[k].sig = "finished" =>
               k > 1 /\ emitted[k - 1] = Emit("progress", 100)
    /\ (Ended /\ (pc = "failed" \/ RenderRaised)) =>
           /\ emitted[Len(emitted)].sig = "error"
           /\ Len(Terminals) = 1
           /\ ~Has100

DistinctTracks(jc) ==
    \A a, b \in 1 .. Len(jc) :
        /\ jc[a].idx \in Joints
        /\ a # b => jc[a].idx # jc[b].idx
Tracks == anim_params.joints
TrackSlot(i) == DominantSlot("worker", Tracks[i].idx)
StartRad(i) == MulPiOver180(Tracks[i].start_val)
EndRad(i) == MulPiOver180(Tracks[i].end_val)

\* t_log[k] is (k-1)/(N-1) when N > 1 and 1 when N = 1
TIsSpecified(k) ==
    /\ t_log[k].d > 0
    /\ IF frames > 1
       THEN t_log[k].n * (frames - 1) = (k - 1) * t_log[k].d
       ELSE t_log[k].n = t_log[k].d

\* C7 as stated: t = i/(N-1) for N > 1 and t = 1 for N = 1, so the single
\* frame of a one-frame animation has the end shape and the end angle of
\* every track.
C7_SingleFrameIsEnd ==
    \A k \in 1 .. Len(frame_params) :
        /\ TIsSpecified(k)
        /\ (frames = 1 /\ DistinctTracks(Tracks)) =>
               /\ frame_params[k].shape_0 = anim_params.shape_end
               /\ \A i \in 1 .. Len(Tracks) :
                      frame_params[k].pose[TrackSlot(i)] = EndRad(i)

\* C7 as amended: t = i/(N-1) for N > 1 and t = 1 for N = 1, so the single
\* frame of a one-frame animation has the values interpolated at t = 1: the
\* end shape and end angles in LINEAR mode and in SMOOTH mode when
\* |end - start| >= 0.01, the start values in SMOOTH mode when
\* |end - start| < 0.01.
C7_SingleFrameAtTOne ==
    \A k \in 1 .. Len(frame_params) :
        /\ TIsSpecified(k)
        /\ (frames = 1 /\ DistinctTracks(Tracks)) =>
               /\ frame_params[k].shape_0 =
                      IF /\ interpolation = "smooth"
                         /\ AbsLt001(RSub(anim_params.shape_end,
                                          anim_params.shape_start))
                      THEN anim_params.shape_start
                      ELSE anim_params.shape_end
               /\ \A i \in 1 .. Len(Tracks) :
                      frame_params[k].pose[TrackSlot(i)] =
                          IF /\ interpolation = "smooth"
                             /\ AbsLt001(RSub(EndRad(i), StartRad(i)))
                          THEN StartRad(i)
                          ELSE EndRad(i)

\* a rendered one-frame animation carrying shape 6 and global 90 degrees
C7_Witness ==
    /\ frames = 1 /\ Len(rendered) = 1 /\ t_log = <<[n |-> 1, d |-> 1]>>
    /\ rendered[1].shape_0 = Num(6)
    /\ rendered[1].pose[1] = MulPiOver180(Num(90))

\* C8 (linear boundary): linear interpolation gives start at t = 0 and end at
\* t = 1; so in a LINEAR run with N > 1 frame 0 has shape_start and every
\* track's start angle, and frame N-1 has shape_end and every track's end
\* angle.
C8_LinearBoundary ==
    LET t0 == [n |-> 0, d |-> 1]
        t1 == [n |-> 1, d |-> 1]
        ss == anim_params.shape_start
        se == anim_params.shape_end
    IN  /\ linear_interpolate(ss, se, t0) = ss
        /\ linear_interpolate(ss, se, t1) = se
        /\ \A i \in 1 .. Len(Tracks) :
               /\ linear_interpolate(StartRad(i), EndRad(i), t0) = StartRad(i)
               /\ linear_interpolate(StartRad(i), EndRad(i), t1) = EndRad(i)
        /\ (interpolation = "linear" /\ frames > 1 /\ DistinctTracks(Tracks)) =>
               /\ Len(frame_params) >= 1 =>
                      /\ frame_params[1].shape_0 = ss
                      /\ \A i \in 1 .. Len(Tracks) :
                             frame_params[1].pose[TrackSlot(i)] = StartRad(i)
               /\ Len(frame_params) = frames =>
                      /\ frame_params[frames].shape_0 = se
                      /\ \A i \in 1 .. Len(Tracks) :
                             frame_params[frames].pose[TrackSlot(i)] = EndRad(i)

\* a finished LINEAR run of several frames with two tracks and a shape that
\* starts away from 0
C8_Witness ==
    /\ interpolation = "linear" /\ frames > 1 /\ pc = "done"
    /\ Len(Tracks) = 2 /\ DistinctTracks(Tracks)
    /\ anim_params.shape_start = Num(-2) /\ anim_params.shape_end = Num(6)
    /\ rendered[1].shape_0 = Num(-2) /\ rendered[frames].shape_0 = Num(6)

\* C9 (smooth degenerate case): in SMOOTH mode a shape with
\* |end - start| < 0.01 keeps the start value in every frame, t = 1 included,
\* and so does a track whose angles differ by less than 0.01 radians.
C9_SmoothDegenerate ==
    interpolation = "smooth" =>
        \A k \in 1 .. Len(frame_params) :
            /\ AbsLt001(RSub(anim_params.shape_end, anim_params.shape_start)) =>
                   frame_params[k].shape_0 = anim_params.shape_start
            /\ DistinctTracks(Tracks) =>
                   \A i \in 1 .. Len(Tracks) :
                       AbsLt001(RSub(EndRad(i), StartRad(i))) =>
                           frame_params[k].pose[TrackSlot(i)] = StartRad(i)

\* a SMOOTH run computed up to t = 1 with shape 0 -> 0.005 and global
\* 0 -> 0.5 degrees (0.0087 rad), whose last frame still has the start values
C9_Witness ==
    /\ interpolation = "smooth" /\ frames >= 2 /\ Len(frame_params) = frames
    /\ anim_params.shape_start = Num(0) /\ anim_params.shape_end = Milli5
    /\ Tracks = <<Track(GLOBAL_ROTATION, Num(0), Half)>>
    /\ ~AbsLt001(RSub(Half, Num(0)))
    /\ frame_params[frames].shape_0 = Num(0)
    /\ frame_params[frames].pose[1] = Zero

\* C10 (end to end): 3 frames, LINEAR, shape 0 -> 6, one track global
\* 0 -> 90 degrees: the renderer gets frame i with shape 3*i, slot 1 equal to
\* i*pi/4 and every other slot 0, for i = 0, 1, 2.
Scenario ==
    /\ frames = 3 /\ interpolation = "linear"
    /\ anim_params = [shape_start |-> Num(0), shape_end |-> Num(6),
                      joints |-> <<Track(GLOBAL_ROTATION, Num(0), Num(90))>>]
C10_EndToEnd ==
    Scenario =>
        /\ pc = "done" => Len(rendered) = 3
        /\ \A k \in 1 .. Len(rendered) :
               /\ rendered[k].frame_idx = k - 1
               /\ rendered[k].shape_0 = Num(3 * (k - 1))
               /\ rendered[k].pose[1] = Real(0, 45 * (k - 1) * Q)
               /\ \A s \in Slots \ {1} : rendered[k].pose[s] = Zero

\* the scenario's run has finished and the middle frame had pi/4
C10_Witness ==
    /\ Scenario /\ pc = "done"
    /\ rendered[2].pose[1] = Real(0, 45 * Q)

\* ------------------------------------------------- frame files (C11, C12) -
\* frame_{i:04d}.png written out digit by digit, for i < 10000
NameOf(i) ==
    [stem |-> "frame_",
     digits |-> <<i \div 1000, (i \div 100) % 10, (i \div 10) % 10, i % 10>>,
     ext |-> ".png"]

\* C11 (frame naming and ordering): the renderer is called once per index
\* 0..N-1 in increasing order, frame i goes to frame_{i:04d}.png, distinct
\* indices have distinct names, and for N > 1 the parameters rendered into
\* file i are the ones computed for t = i/(N-1).
C11_FrameNaming ==
    /\ Len(rendered) <= Max(frames, 0)
    /\ pc = "done" => Len(rendered) = Max(frames, 0)
    /\ \A k \in 1 .. Len(rendered) :
           /\ rendered[k].frame_idx = k - 1
           /\ rendered[k].file = NameOf(k - 1)
           /\ rendered[k].saved => rendered[k].file \in files
           /\ \A j \in 1 .. Len(rendered) :
                  j # k => rendered[j].file # rendered[k].file
           /\ frames > 1 =>
                  LET t == [n |-> k - 1, d |-> frames - 1]
                  IN  /\ rendered[k].shape_0 =
                             frame_shape(interpolation, anim_params.shape_start,
                                         anim_params.shape_end, t)
                      /\ rendered[k].pose =
                             frame_pose(anim_params.joints, interpolation, t)
    /\ \A f \in files : \E k \in 1 .. Len(rendered) :
           rendered[k].saved /\ rendered[k].file = f

\* a finished four-frame run with two tracks that saved frame_0000..frame_0003
C11_Witness ==
    /\ pc = "done" /\ frames = 4 /\ Len(anim_params.joints) = 2
    /\ files = {NameOf(0), NameOf(1), NameOf(2), NameOf(3)}
    /\ rendered[4].file.digits = <<0, 0, 0, 3>>

\* C12 (no gapped sequence): when a run of N frames has ended with
\* finished_signal, each of frame_0000.png .. frame_{N-1:04d}.png was saved
\* during the run.
C12_NoGap ==
    (pc = "done" /\ HasFinished) =>
        \A i \in 0 .. (frames - 1) : NameOf(i) \in files

\* ------------------------------------------ rejected requests (C13, C14) --
\* a numbered track whose target offset 3 + 3*id + axis is past the vector
OutOfRange(i) ==
    /\ Tracks[i].idx # GLOBAL_ROTATION
    /\ 3 + 3 * Tracks[i].idx + axis_map(Tracks[i].idx) >= PoseLen
\* joint_configs without its i-th entry
WithoutTrack(i) == SubSeq(Tracks, 1, i - 1) \o SubSeq(Tracks, i + 1, Len(Tracks))

\* C13 (out-of-range joint): a track whose offset is >= 156 changes no slot
\* of any frame's pose vector, and once a frame has been assembled with it
\* the OutOfRangeJoint condition has been signalled: the run is failed with
\* error_signal, not carried on as if the track were absent.
C13_OutOfRangeSignalled ==
    \A i \in 1 .. Len(Tracks) :
        OutOfRange(i) =>
            \A k \in 1 .. Len(frame_params) :
                /\ frame_params[k].pose =
                       frame_pose(WithoutTrack(i), interpolation, t_log[k])
                /\ pc = "failed"
                /\ HasError

\* C14 (invalid frame count): run() checks frame_count >= 1 first; a run
\* with frames < 1 renders nothing, emits neither progress 100 nor
\* finished_signal, and ends as failed.
C14_InvalidFrameCount ==
    frames < 1 =>
        /\ rendered = <<>>
        /\ ~Has100
        /\ ~HasFinished
        /\ pc \in {"ready", "failed"}

\* --------------------------------------------- registry convention (C17) --
\* the convention as the registry is documented: legs on Z (2), trunk on
\* Y (1), arms on X (0), anything unlisted on X
ClaimedAxis(id) ==
    IF id \in {1, 2, 4, 5, 7, 8, 10, 11} THEN 2
    ELSE IF id \in {3, 6, 9, 12, 15} THEN 1
    ELSE IF id \in {13, 14, 16, 17, 18, 19, 20, 21} THEN 0
    ELSE 0

\* C17 (registry axis convention): the lookup the control surface uses gives
\* Z for ids 1,2,4,5,7,8,10,11, Y for 3,6,9,12,15, X for 13,14,16..21 and for
\* every unlisted id, and Y for the global pseudo-joint; a slider write
\* therefore lands in slot 3 + 3*id + that axis (slot 1 for global).
C17_RegistryAxis ==
    /\ \A id \in 0 .. 55 : JOINT_AXIS_MAP(id) = ClaimedAxis(id)
    /\ JOINT_AXIS_MAP(GLOBAL_ROTATION) = 1
    /\ last.writer = "ui" =>
           IF last.idx = GLOBAL_ROTATION
           THEN pose_params[1] = last.rad
           ELSE pose_params[3 + 3 * last.idx + ClaimedAxis(last.idx)] = last.rad

C17_Witness ==
    /\ last.writer = "ui"
    /\ last.idx = 1
    /\ last.rad = MulPiOver180(Num(30))
    /\ pose_params[3 + 3 * 1 + 2] = last.rad
    /\ pose_params[3 + 3 * 1 + 1] = Zero
    /\ writes = 2

\* ------------------------------------------------ absent tracks (C15) ----
\* the slots some track of the run writes its angle to
TrackedSlots == {DominantSlot("worker", Tracks[i].idx) : i \in 1 .. Len(Tracks)}

\* C15 (tracks not present are zero): in every frame handed to
\* _render_frame, every pose slot that is not the dominant slot of a joint of
\* the run's tracks is 0, whatever the control surface's pose vector holds
\* and whatever the previous frame held.
C15_AbsentTracksZero ==
    \A k \in 1 .. Len(rendered) :
        \A s \in Slots \ TrackedSlots : rendered[k].pose[s] = Zero

C15_Witness ==
    /\ pc = "done"
    /\ frames = 3
    /\ Len(rendered) = 3
    /\ anim_params.joints = <<Track(16, Num(30), Num(-60)),
                              Track(GLOBAL_ROTATION, Num(90), Num(0))>>
    /\ pose_params[3 + 3 * 3 + 1] = MulPiOver180(Num(-90))
    /\ rendered[3].pose[3 + 3 * 3 + 1] = Zero
    /\ rendered[1].pose[1] = MulPiOver180(Num(90))
    /\ rendered[3].pose[1] = Zero
    /\ rendered[3].pose[3 + 3 * 16] = MulPiOver180(Num(-60))

\* ------------------------------------------------ shape vector (C16) -----
\* C16 (shape vector): after any sequence of shape-slider updates, resets
\* and animation runs, slots 1..9 of the control surface's shape vector are
\* 0, and so are slots 1..9 of the betas of every frame passed to the body
\* model; only slot 0 can be non-zero.
C16_ShapeVector ==
    /\ \A s \in ShapeSlots \ {0} : shape_params[s] = Zero
    /\ \A k \in 1 .. Len(rendered) :
           \A s \in ShapeSlots \ {0} : rendered[k].betas[s] = Zero

C16_Witness ==
    /\ mode = "test"
    /\ pc = "done"
    /\ Len(rendered) = 2
    /\ rendered[1].called /\ rendered[2].called
    /\ rendered[1].betas[0] = Num(-5)
    /\ rendered[2].betas[0] = Num(3)
    /\ shape_params = ZeroShape
    /\ handled = Len(emitted)

Running == pc \in {"start", "compute", "assign", "render", "finish"}

\* C19 (at most one run): from the start of a worker until its finished or
\* error signal has been handled the generate button is disabled, so at most
\* one worker is active; once the terminal handler has run the button is
\* enabled again.
C19_OneActiveRun ==
    mode \in SurfaceModes =>
        /\ active \in {0, 1}
        /\ active = 1 => ~generate_btn
        /\ active = 0 => generate_btn
        /\ Running => active = 1
        /\ (HasFinished \/ HasError) /\ handled < Len(emitted) => active = 1

C19_Witness ==
    /\ mode = "test"
    /\ files # {}
    /\ pc = "compute"
    /\ rendered = <<>>
    /\ active = 1
    /\ ~generate_btn

\* ------------------------------------------------ no body model (C20) ----
\* C20 (model unavailable): while no body model is loaded the canvas shows
\* the placeholder, the body model has not been called by any render, the
\* application has not failed, no worker has been created or started, and a
\* generate request changes neither pose, shape, button nor worker.
C20_ModelUnavailable ==
    /\ [](body_model = "None" =>
            /\ canvas = "placeholder"
            /\ app = "up"
            /\ \A k \in 1 .. Len(rendered) : ~rendered[k].called
            /\ mode \in SurfaceModes =>
                   /\ pc = "ready"
                   /\ frames = 0
                   /\ active = 0
                   /\ generate_btn)
    /\ [][(body_model = "None" /\ GenerateAnimation) =>
              UNCHANGED <<pose_params, shape_params, generate_btn, active,
                          workerVars>>]_vars

C20_Witness ==
    /\ mode = "ui"
    /\ body_model = "None"
    /\ canvas = "placeholder"
    /\ shape_params[0] = Num(-5)
    /\ pose_params[3 + 3 * 3 + 1] = MulPiOver180(Num(45))
    /\ pc = "ready"
    /\ generate_btn

\* ------------------------------------------------ smooth profile (C21) ---
\* C21 (ease-in/ease-out): in SMOOTH mode with |end - start| >= 0.01 the
\* shape of a run of three or more frames is not the LINEAR ramp: at some
\* interior frame, 0 < t < 1, it differs from start + (end - start) * t.
C21_SmoothEases ==
    ( /\ interpolation = "smooth"
      /\ frames >= 3
      /\ Len(frame_params) = frames
      /\ ~AbsLt001(RSub(anim_params.shape_end, anim_params.shape_start)) ) =>
        \E k \in 2 .. (frames - 1) :
            frame_params[k].shape_0 #
                linear_interpolate(anim_params.shape_start,
                                   anim_params.shape_end, t_log[k])

LastTrackOf(j) ==
    CHOOSE i \in 1 .. Len(Tracks) :
        /\ Tracks[i].idx = j
        /\ \A m \in (i + 1) .. Len(Tracks) : Tracks[m].idx # j
HasDuplicate ==
    \E a, b \in 1 .. Len(Tracks) : a # b /\ Tracks[a].idx = Tracks[b].idx

\* C23 (last write wins): when a joint id occurs in several entries of
\* joint_configs, in every frame the joint's dominant slot holds the angle
\* of the last such entry at the frame's t and its other two slots hold 0:
\* the vector is the one the last entry alone would give.
C23_LastWriteWins ==
    HasDuplicate =>
        \A k \in 1 .. Len(frame_params) :
            \A j \in {Tracks[i].idx : i \in 1 .. Len(Tracks)} \cap Joints :
                LET last_entry == Tracks[LastTrackOf(j)]
                    dominant == DominantSlot("worker", j)
                IN  /\ frame_params[k].pose[dominant] =
                           track_rad(interpolation, last_entry.start_val,
                                     last_entry.end_val, t_log[k])
                    /\ \A s \in Triple(j) \ {dominant} :
                           frame_params[k].pose[s] = Zero

C23_Witness ==
    /\ pc = "done"
    /\ frames = 3
    /\ interpolation = "linear"
    /\ Tracks = <<Track(5, Num(0), Num(30)), Track(5, Num(90), Num(-90))>>
    /\ frame_params[1].pose[3 + 3 * 5 + 2] = MulPiOver180(Num(90))
    /\ frame_params[2].pose[3 + 3 * 5 + 2] = Zero
    /\ frame_params[3].pose[3 + 3 * 5 + 2] = MulPiOver180(Num(-90))

\* ------------------------------------------------ one mapping (C24) ------
\* C24 (one joint-to-slot mapping): for every joint and angle the slot a
\* track write of AnimationWorker.run puts the angle in is the slot
\* _update_joint puts it in, so after a write by either of them the slot the
\* other would have used holds the angle too.
C24_OneMapping ==
    last.writer # "none" =>
        /\ Written[DominantSlot("ui", last.idx)] = last.rad
        /\ Written[DominantSlot("worker", last.idx)] = last.rad

\* ------------------------------------------------ body partition (C25) ---
BodyPartition == 3 .. 65
HandPartitions == 66 .. (PoseLen - 1)

\* C25 (body-partition containment): a joint write for a registry id 0..21
\* touches three slots inside [3, 66) and leaves every slot of the hand
\* partitions [66, 111) and [111, 156) as it was.
C25_BodyContainment ==
    (last.writer # "none" /\ last.idx \in RegistryIds) =>
        /\ Triple(last.idx) \subseteq BodyPartition
        /\ \A s \in HandPartitions : Written[s] = last.before[s]

\* ------------------------------------------------ worker isolation (C26) -
\* C26 (the worker renders from its own values): no step of run() changes
\* the control surface's shape_params or pose_params, and every frame is
\* rendered with the shape and pose computed from the run's parameters for
\* its t, whatever the sliders have written meanwhile.
C26_WorkerIsolated ==
    /\ [][RunNext => UNCHANGED <<shape_params, pose_params>>]_vars
    /\ [](\A k \in 1 .. Len(rendered) :
            /\ rendered[k].shape_0 =
                   frame_shape(interpolation, anim_params.shape_start,
                               anim_params.shape_end,
                               frame_t(k - 1, frames))
            /\ rendered[k].pose =
                   frame_pose(anim_params.joints, interpolation,
                              frame_t(k - 1, frames)))

C26_Witness ==
    /\ mode = "live"
    /\ pc = "done"
    /\ frames = 2
    /\ Tracks = <<Track(3, Num(0), Num(30))>>
    /\ shape_params[0] = Num(-5)
    /\ pose_params[3 + 3 * 3 + 1] = MulPiOver180(Num(45))
    /\ rendered[1].shape_0 = Num(-2)
    /\ rendered[1].pose = ZeroPose
    /\ rendered[2].shape_0 = Num(3)
    /\ rendered[2].pose[3 + 3 * 3 + 1] = MulPiOver180(Num(30))

\* ------------------------------------------------ generate in ui.py (C27)
\* C27 (generate, ui.py): once generation has been triggered with a model
\* loaded and a frame count >= 1, so that the worker object exists with its
\* frame count, the application is still up and the worker has been started
\* with the button disabled, or its terminal signal has already been handled
\* and the button is enabled again.
C27_GenerateStarts ==
    (mode = "ui" /\ frames >= 1) =>
        /\ app = "up"
        /\ \/ active = 1 /\ ~generate_btn /\ pc # "ready"
           \/ /\ HasFinished \/ HasError
              /\ handled = Len(emitted)
              /\ generate_btn


\* ---------------------------------------------------------------- C28 ----
SliderSlot(idx) == DominantSlot("ui", idx)
SliderSlots == {SliderSlot(idx) : idx \in CoreJoints}
SlidersMatch ==
    /\ \A idx \in CoreJoints :
           pose_params[SliderSlot(idx)] = MulPiOver180(core_sliders[idx])
    /\ \A s \in Slots \ SliderSlots : pose_params[s] = Zero
    /\ shape_params[0] = shape_slider
AllZero ==
    /\ pose_params = ZeroPose
    /\ shape_params = ZeroShape
    /\ shape_slider = Zero
    /\ \A idx \in CoreJoints : core_sliders[idx] = Zero

\* C28 (slider/pose consistency): in the window of ui.py, after any sequence
\* of joint-slider changes, shape-slider changes and reset-all, each core
\* joint's dominant pose slot equals its slider value in degrees times
\* pi/180, every other pose slot is 0 and shape slot 0 equals the shape
\* slider value; reset-all leaves pose and shape all zero with every slider
\* at 0.
C28_SlidersMatchPose ==
    /\ [](mode = "window" => SlidersMatch)
    /\ [][mode = "window" /\ ResetAll => AllZero']_vars

\* two joint sliders (the global one among them) and the shape slider are
\* away from 0
C28_Witness ==
    /\ mode = "window"
    /\ core_sliders[GLOBAL_ROTATION] = Num(45)
    /\ core_sliders[16] = Num(45)
    /\ core_sliders[3] = Zero
    /\ shape_slider = Num(-5)
    /\ pose_params[1] = MulPiOver180(Num(45))
    /\ pose_params[3 + 3 * 16] = MulPiOver180(Num(45))


\* ---------------------------------------------------------------- C29 ----
Orderings(n) == {f \in [1 .. n -> 1 .. n] : \A a, b \in 1 .. n : a # b => f[a] # f[b]}
Reordered(jc, f) == [i \in 1 .. Len(jc) |-> jc[f[i]]]

\* C29 (track order independence): for joint tracks with pairwise distinct
\* joints, the pose vector the run assembles for each frame is the one
\* assembled from every other ordering of the tracks, and applying a track
\* twice (alone, or again after the whole list) gives the vector of applying
\* it once.
C29_OrderIndependent ==
    DistinctTracks(Tracks) =>
        \A k \in 1 .. Len(frame_params) :
            LET t == frame_t(k - 1, frames)
                once == frame_params[k].pose
            IN  /\ \A f \in Orderings(Len(Tracks)) :
                       frame_pose(Reordered(Tracks, f), interpolation, t) = once
                /\ frame_pose(Tracks \o Tracks, interpolation, t) = once
                /\ \A i \in 1 .. Len(Tracks) :
                       /\ frame_pose(Tracks \o <<Tracks[i]>>, interpolation, t)
                              = once
                       /\ frame_pose(<<Tracks[i], Tracks[i]>>, interpolation, t)
                              = frame_pose(<<Tracks[i]>>, interpolation, t)

\* a frame assembled from two tracks of different joints, both angles not 0
C29_Witness ==
    /\ mode = "run"
    /\ Len(Tracks) = 2
    /\ DistinctTracks(Tracks)
    /\ Len(frame_params) >= 2
    /\ frame_params[2].pose[TrackSlot(1)] # Zero
    /\ frame_params[2].pose[TrackSlot(2)] # Zero


\* ---------------------------------------------------------------- C30 ----
ViewMatchesSliders == current_view = view_sliders

\* C30 (view state consistency): from start-up and after any sequence of
\* view-slider moves, preset applications, saved-view loads and view resets,
\* the view globals (elevation, azimuth, distance) equal the values of the
\* three view sliders, and moving only the elevation or azimuth slider
\* leaves the view distance unchanged.
C30_ViewConsistent ==
    /\ [](mode = "window" => ViewMatchesSliders)
    /\ [][MoveElevSlider \/ MoveAzimSlider =>
              current_view'.dist = current_view.dist]_vars

====
